---------------------------- MODULE Spec2Model ----------------------------
(***************************************************************************)
(* Song-library services over an object-storage bucket.                    *)
(*                                                                         *)
(*   Spec     the Google Cloud Storage resolver: GET /genres, GET          *)
(*            /songs/:genre, GET /search, POST /upload (src/server.js,     *)
(*            part_001, part_003, part_009)                                *)
(*   SpecDir  the folder variant with placeholder objects (part_008)       *)
(*   SpecTTL  the Backblaze B2 issuer with the TTL cache (part_003)        *)
(*   SpecTok  the B2 issuers that cache a token or a flag and never        *)
(*            expire it (part_004, part_010)                               *)
(*   SpecStream  the stream endpoints of the B2 services (part_000,        *)
(*            part_002, part_003, part_004, part_006, part_007)            *)
(*   SpecObj  upload with existence check and delete (part_009, part_005)  *)
(*   SpecSongs  GET /api/songs and its file-list cache (part_003)          *)
(*   SpecRetry, SpecRetryFair  bucketOperationWithRetry (src/server.js)    *)
(*                                                                         *)
(* Strings are TLA+ strings; the JavaScript string functions the handlers  *)
(* use are defined below as the language defines them.                     *)
(***************************************************************************)
EXTENDS Integers, Sequences, FiniteSets, TLC

(***************************************************************************)
(* JavaScript strings                                                      *)
(***************************************************************************)

\* ASCII order of the characters that occur in keys, queries and urls.
Alphabet == " ./0123456789:ABCDEFGHIJKLMNOPQRSTUVWXYZabcdefghijklmnopqrstuvwxyz"

UpperLetters == "ABCDEFGHIJKLMNOPQRSTUVWXYZ"

LowerLetters == "abcdefghijklmnopqrstuvwxyz"

charAt(s, i) == SubSeq(s, i, i)

\* s.slice(i): the characters of s from (1-based) position i on.
sliceFrom(s, i) == SubSeq(s, i, Len(s))

charCode(c) == CHOOSE i \in 1..Len(Alphabet) : charAt(Alphabet, i) = c

\* String.prototype.startsWith
startsWith(s, t) == Len(t) <= Len(s) /\ SubSeq(s, 1, Len(t)) = t

\* String.prototype.endsWith
endsWith(s, t) == Len(t) <= Len(s) /\ SubSeq(s, Len(s) - Len(t) + 1, Len(s)) = t

\* t occurs in s at (1-based) position i.
occursAt(s, t, i) == SubSeq(s, i, i + Len(t) - 1) = t

\* String.prototype.includes
includes(s, t) == \E i \in 1..(Len(s) - Len(t) + 1) : occursAt(s, t, i)

\* String.prototype.indexOf, 1-based; 0 when t does not occur.
indexOf(s, t) ==
  IF ~includes(s, t) THEN 0
  ELSE CHOOSE i \in 1..(Len(s) - Len(t) + 1) :
         occursAt(s, t, i) /\ \A j \in 1..(i - 1) : ~occursAt(s, t, j)

\* String.prototype.replaceAll: every occurrence of pat is replaced.
replaceAll(s, pat, rep) ==
  LET RECURSIVE strip(_)
      strip(u) == IF pat = "" \/ ~includes(u, pat) THEN u
                  ELSE strip(SubSeq(u, 1, indexOf(u, pat) - 1) \o rep
                             \o sliceFrom(u, indexOf(u, pat) + Len(pat)))
  IN strip(s)

\* String.prototype.replace with a string pattern: only the first occurrence
\* of pat is replaced.
replace(s, pat, rep) ==
  IF ~includes(s, pat) THEN s
  ELSE SubSeq(s, 1, indexOf(s, pat) - 1) \o rep \o sliceFrom(s, indexOf(s, pat) + Len(pat))

\* s.split('/')[0]: the part of s before its first '/', all of s without one.
splitFirst(s) == IF includes(s, "/") THEN SubSeq(s, 1, indexOf(s, "/") - 1) ELSE s

\* The lower-case letter of every upper-case letter.
lowerOf ==
  [c \in {charAt(UpperLetters, i) : i \in 1..Len(UpperLetters)} |->
     charAt(LowerLetters, indexOf(UpperLetters, c))]

toLowerChar(c) == IF c \in DOMAIN lowerOf THEN lowerOf[c] ELSE c

\* String.prototype.toLowerCase
RECURSIVE toLowerCase(_)
toLowerCase(s) ==
  IF s = "" THEN "" ELSE toLowerChar(charAt(s, 1)) \o toLowerCase(SubSeq(s, 2, Len(s)))

\* String.prototype.trim (the only white space in the alphabet is the blank).
RECURSIVE trim(_)
trim(s) ==
  IF s = "" THEN ""
  ELSE IF charAt(s, 1) = " " THEN trim(sliceFrom(s, 2))
  ELSE IF charAt(s, Len(s)) = " " THEN trim(SubSeq(s, 1, Len(s) - 1))
  ELSE s

\* s without its trailing '/' characters.
RECURSIVE stripTrailingSlashes(_)
stripTrailingSlashes(s) ==
  IF s # "" /\ charAt(s, Len(s)) = "/" THEN stripTrailingSlashes(SubSeq(s, 1, Len(s) - 1))
  ELSE s

\* The last (1-based) position of '/' in s; 0 without one.
RECURSIVE lastSlash(_)
lastSlash(s) ==
  IF s = "" THEN 0
  ELSE IF charAt(s, Len(s)) = "/" THEN Len(s)
  ELSE lastSlash(SubSeq(s, 1, Len(s) - 1))

\* path.basename (posix): the last segment, trailing separators ignored.
basename(p) ==
  LET q == stripTrailingSlashes(p) IN sliceFrom(q, lastSlash(q) + 1)

\* path.dirname (posix).
dirname(p) ==
  LET q == stripTrailingSlashes(p)
      d == stripTrailingSlashes(SubSeq(q, 1, lastSlash(q)))
  IN IF p = "" THEN "."
     ELSE IF q = "" THEN "/"
     ELSE IF lastSlash(q) = 0 THEN "."
     ELSE IF d = "" THEN "/"
     ELSE d

\* Byte order of two strings, as the bucket lists its keys.
RECURSIVE lexLess(_, _)
lexLess(s, t) ==
  IF t = "" THEN FALSE
  ELSE IF s = "" THEN TRUE
  ELSE IF charAt(s, 1) = charAt(t, 1) THEN lexLess(sliceFrom(s, 2), sliceFrom(t, 2))
  ELSE charCode(charAt(s, 1)) < charCode(charAt(t, 1))

\* The strings of S in byte order.
RECURSIVE sorted(_)
sorted(S) ==
  IF S = {} THEN <<>>
  ELSE LET m == CHOOSE x \in S : \A y \in S \ {x} : lexLess(x, y)
       IN <<m>> \o sorted(S \ {m})

\* Array.prototype.filter is SelectSeq; Array.prototype.map is written as the
\* function [i \in 1..Len(seq) |-> ...].
Range(seq) == {seq[i] : i \in 1..Len(seq)}

\* seq without the repetitions of its elements, first occurrences kept.
RECURSIVE distinct(_)
distinct(seq) ==
  IF seq = <<>> THEN <<>>
  ELSE LET front == distinct(SubSeq(seq, 1, Len(seq) - 1))
       IN IF seq[Len(seq)] \in Range(front) THEN front ELSE Append(front, seq[Len(seq)])

(***************************************************************************)
(* State                                                                   *)
(***************************************************************************)

VARIABLES
  \* The bucket services (src/server.js, part_003, part_008, part_009)
  bucket,     \* the objects of the bucket: object name -> metadata
  resp,       \* the response of the last request answered
  del,        \* the DELETE /folders/:name request in progress (part_008): its
              \* folder, the files still to delete, the files it has deleted
  \* The B2 issuer with the TTL cache (part_003, second service)
  now,        \* Date.now(), in milliseconds
  ticks,      \* how often the clock has advanced
  cache,      \* the module-level cache: auth and authExpiry
  authCalls,  \* the number of b2.authorize() calls made so far
  pc,         \* where each caller of authorizeB2() stands
  found,      \* what each call found in the cache: "valid", "empty", "expired"
  mine,       \* the b2.authorize() call each call of authorizeB2() awaits
  ret,        \* the credential each call of authorizeB2() returned
  issued,     \* the b2.authorize() calls that resolved
  rejected,   \* the b2.authorize() calls that rejected
  lastOk,     \* the b2.authorize() call that resolved last, and when
  \* The B2 issuers without expiry (part_004, part_010)
  variant,    \* "axios" (part_004) or "flag" (part_010)
  authToken,  \* part_004: authToken; part_010: the token the B2 client holds
  apiUrl,     \* part_004: the authorization response apiUrl comes from
  downloadUrl, \* part_004: the authorization response downloadUrl comes from
  b2Authorized, \* part_010: the flag
  tokCalls,   \* the number of authorization calls made so far
  validTokens, \* the tokens the backend accepts
  tpc,        \* where each request handler stands
  used,       \* the token each handler sent with its backend call
  treq,       \* the request each handler serves: its route and its query
  turl,       \* part_004: the apiUrl each handler sent its backend call to and
              \* the downloadUrl it built its stream url from
  \* The stream endpoints (part_000, part_002 to part_004, part_006, part_007)
  svc,        \* the service that runs
  hpc,        \* where each request handler stands
  hreq,       \* the request each handler serves
  hloc,       \* the local variables of each handler
  hres,       \* the response each handler has sent
  \* GET /api/songs (part_003, second service)
  sloc,       \* the local variables and the response of each handler
  \* bucketOperationWithRetry (src/server.js, second service)
  retry       \* each call in progress: its arguments, locals and outcome

gcsVars == <<bucket, resp, del>>

ttlVars == <<now, ticks, cache, authCalls, pc, found, mine, ret, issued, rejected, lastOk>>

tokVars == <<variant, authToken, apiUrl, downloadUrl, b2Authorized, tokCalls,
             validTokens, tpc, used, treq, turl>>

\* The requests in flight at the services modelled request by request.
reqVars == <<svc, hpc, hreq, hloc, hres, sloc, retry>>

b2Vars == <<ttlVars, tokVars, reqVars>>

vars == <<gcsVars, ttlVars, tokVars, reqVars>>

\* The callers of authorizeB2() in the TTL-cache service: the app.listen
\* callback, which calls it once, and two request handlers.
Requests == {"r1", "r2"}

Procs == {"listen"} \cup Requests

\* The request handlers of the services without expiry.
Handlers == {"h1", "h2"}

\* No request.
NoReq == [route |-> "", query |-> <<>>]

\* No response sent, no local variable set.
NoRes == [status |-> 0]

NoLoc == [askedAt |-> 0, ttl |-> 0, validUntil |-> 0, token |-> "", failure |-> ""]

\* No request is in flight.
\* A handler of GET /api/songs that serves no request: no file listed, no
\* url generated, no backend call made, no response sent.
NoSongs == [files |-> {}, todo |-> {}, songs |-> {}, backendCalls |-> 0,
            res |-> [status |-> 0, body |-> {}]]

\* No call of bucketOperationWithRetry in progress.
NoRetry == [pc |-> "idle", maxRetries |-> 0, i |-> 0, invocations |-> 0,
            lastError |-> 0, delay |-> 0, outcome |-> 0]

ReqIdle ==
  /\ hpc = [h \in Handlers |-> "idle"]
  /\ hreq = [h \in Handlers |-> NoReq]
  /\ hloc = [h \in Handlers |-> NoLoc]
  /\ hres = [h \in Handlers |-> NoRes]
  /\ sloc = [p \in Procs |-> NoSongs]
  /\ retry = [h \in Handlers |-> NoRetry]

\* let cache = { auth: null, authExpiry: null, files: null, filesExpiry: null }:
\* null is 0; files is <<>> when null and <<list>> when it holds a list.
EmptyCache == [auth |-> 0, authExpiry |-> 0, files |-> <<>>, filesExpiry |-> 0]

\* The TTL-cache service before it starts.
TTLIdle ==
  /\ now = 0 /\ ticks = 0 /\ cache = EmptyCache /\ authCalls = 0
  /\ pc = [p \in Procs |-> "idle"]
  /\ found = [p \in Procs |-> ""]
  /\ mine = [p \in Procs |-> 0]
  /\ ret = [p \in Procs |-> 0]
  /\ issued = {} /\ rejected = {}
  /\ lastOk = [id |-> 0, at |-> 0]

\* The services without expiry before they start: let authToken = '',
\* apiUrl = '', downloadUrl = '' ('' is 0); let b2Authorized = false.
NoUrls == [api |-> 0, base |-> 0]

TokIdle ==
  /\ authToken = 0 /\ apiUrl = 0 /\ downloadUrl = 0 /\ b2Authorized = FALSE
  /\ tokCalls = 0 /\ validTokens = {}
  /\ tpc = [h \in Handlers |-> "idle"]
  /\ used = [h \in Handlers |-> 0]
  /\ treq = [h \in Handlers |-> NoReq]
  /\ turl = [h \in Handlers |-> NoUrls]

(***************************************************************************)
(* The bucket, as the storage client presents it                           *)
(***************************************************************************)

\* The largest number of objects the bucket holds.
MaxKeys == 3

\* process.env.GOOGLE_BUCKET_NAME
BucketName == "music"

\* Object names the bucket may hold when the service starts: a root-level
\* song, songs in folders, names that differ in letter case only, a name in
\* which the folder prefix occurs twice, a folder marker, a folder called
\* like the root pseudo-folder, and a name with a leading '/'.
KeyUniverse ==
  { "root.mp3", "jazz/a.mp3", "Jazz/A.mp3", "rock/jazz.mp3", "jazz/jazz/c.mp3",
    "jazz/", "All Songs/x.mp3", "/lead.mp3" }

\* The :genre route parameter.
GenreParams == {"jazz", "Jazz", "rock", "All Songs", "Other"}

\* The q query parameter: <<>> when the request has none, <<s>> otherwise.
QueryParams ==
  {<<>>} \cup {<<s>> : s \in {"", " ", "jazz", "JAZZ", " Jazz", "a", "A", "c.MP3"}}

\* The genre field of an upload ("" when absent or empty) and the file name.
UploadGenres == {"", "jazz", "All Songs"}

UploadNames == {"new.mp3"}

\* An upload that stores a file without genre at the root.
uploadFileNameRootWithoutGenre(genreField, originalname) ==
  IF genreField # "" THEN genreField \o "/" \o originalname ELSE originalname

\* `${genre}/${req.file.originalname}` with genre = req.body.genre || 'Other'
uploadFileName(genreField, originalname) ==
  LET genre == IF genreField = "" THEN "Other" ELSE genreField
  IN IF genre # "" THEN genre \o "/" \o originalname ELSE originalname

\* The folder variant (part_008): the name field of POST /folders and the
\* :folder and :name route parameters, the folder field of an upload ("" when
\* absent or empty), the uploaded file's name and length.
FolderNames == {"jazz", "rock"}

UploadFolders == {"", "jazz"}

DirUploadNames == {"a.mp3"}

UploadSizes == {0, 1}

DeleteNames == {"a.mp3", "jazz/a.mp3", "jazz/.keep", "rock/.keep"}

\* Objects the folder variant may find in the bucket when it starts: none, or
\* a folder marker made outside the service.
DirInitialKeys == {"jazz/"}

\* `${folderName}/.keep`
folderPath(folderName) == folderName \o "/.keep"

\* folder ? `${folder}/${req.file.originalname}` : req.file.originalname
dirFileName(folder, originalname) ==
  IF folder # "" THEN folder \o "/" \o originalname ELSE originalname

\* Every object name of the model, in the byte order in which the bucket
\* lists its objects.
KeyOrder ==
  sorted(KeyUniverse
         \cup {uploadFileName(g, n) : g \in UploadGenres, n \in UploadNames}
         \cup {folderPath(f) : f \in FolderNames}
         \cup {dirFileName(f, n) : f \in UploadFolders, n \in DirUploadNames}
         \cup DirInitialKeys)

NoDel == [active |-> FALSE, folder |-> "", todo |-> {}, failed |-> FALSE, removed |-> {}]

NoResp == [op |-> "", arg |-> <<>>, upstream |-> TRUE, status |-> 0, body |-> <<>>]

\* The url the handlers build for an object.
publicUrl(name) == "https://storage.googleapis.com/" \o BucketName \o "/" \o name

\* The object name a url built by publicUrl refers to.
keyOfUrl(url) == sliceFrom(url, Len(publicUrl("")) + 1)

\* bucket.getFiles({ prefix }): the names that start with prefix, in byte
\* order (bucket.getFiles() is the case prefix = "").
getFiles(b, prefix) ==
  SelectSeq(KeyOrder, LAMBDA k : k \in DOMAIN b /\ startsWith(k, prefix))

\* bucket.getFiles({ delimiter: '/' }).prefixes as the handlers read it: the
\* distinct names cut after their first '/', in byte order (empty or absent
\* when no name has a '/': the handlers treat both alike).
firstPrefix(name) == SubSeq(name, 1, indexOf(name, "/"))

prefixes(b) ==
  LET withSlash == SelectSeq(getFiles(b, ""), LAMBDA k : includes(k, "/"))
  IN distinct([i \in 1..Len(withSlash) |-> firstPrefix(withSlash[i])])

hasRootFiles(b) == \E k \in DOMAIN b : ~includes(k, "/")

AllSongs == [name |-> "All Songs", path |-> ""]

folderEntry(folder) == [name |-> replace(folder, "/", ""), path |-> folder]

(***************************************************************************)
(* src/server.js, first service                                            *)
(***************************************************************************)

\* A getFolders that pushes "All Songs" after the folders.
getFoldersRootLast(b, ok) ==
  IF ~ok THEN <<AllSongs>>
  ELSE LET listed == prefixes(b)
           folders == [i \in 1..Len(listed) |-> folderEntry(listed[i])]
       IN IF hasRootFiles(b) THEN folders \o <<AllSongs>> ELSE folders

\* getFolders: the folder prefixes, with "All Songs" put first if root files
\* exist; the fallback list when a listing throws.
getFolders(b, ok) ==
  IF ~ok THEN <<AllSongs>>
  ELSE LET listed == prefixes(b)
           folders == [i \in 1..Len(listed) |-> folderEntry(listed[i])]
       IN IF hasRootFiles(b) THEN <<AllSongs>> \o folders ELSE folders

\* A GET /genres that tidies the folder markers away.
GetGenresRemovingMarkers ==
  \E ok \in BOOLEAN :
    /\ resp' = [op |-> "GET /genres", arg |-> <<>>, upstream |-> ok, status |-> 200,
                body |-> getFolders(bucket, ok)]
    /\ bucket' = [k \in {n \in DOMAIN bucket : ~endsWith(n, "/")} |-> bucket[k]]
    /\ UNCHANGED <<del, b2Vars>>

\* GET /genres
GetGenres ==
  \E ok \in BOOLEAN :
    /\ resp' = [op |-> "GET /genres", arg |-> <<>>, upstream |-> ok, status |-> 200,
                body |-> getFolders(bucket, ok)]
    /\ UNCHANGED <<bucket, del, b2Vars>>

\* The prefix GET /songs/:genre lists.
genrePrefix(genre) == IF genre = "All Songs" THEN "" ELSE genre \o "/"

\* The name GET /songs/:genre would report with every occurrence of the
\* prefix removed.
songNameAllOccurrences(fileName, prefix) == replaceAll(fileName, prefix, "")

\* The name GET /songs/:genre reports for a file.
songName(fileName, prefix) == replace(fileName, prefix, "")

genreSongs(b, genre) ==
  LET prefix == genrePrefix(genre)
      files == SelectSeq(getFiles(b, prefix), LAMBDA name : ~endsWith(name, "/"))
  IN [i \in 1..Len(files) |->
       [name |-> songName(files[i], prefix), url |-> publicUrl(files[i]),
        size |-> b[files[i]].size, genre |-> genre]]

\* GET /songs/:genre
GetSongsByGenre ==
  \E genre \in GenreParams, ok \in BOOLEAN :
    /\ resp' = [op |-> "GET /songs/:genre", arg |-> <<genre>>, upstream |-> ok,
                status |-> IF ok THEN 200 ELSE 500,
                body |-> IF ok THEN genreSongs(bucket, genre) ELSE <<>>]
    /\ UNCHANGED <<bucket, del, b2Vars>>

\* req.query.q?.trim() || ''
searchQuery(q) == IF q = <<>> THEN "" ELSE trim(q[1])

\* The filter of GET /search with the query compared as typed.
searchMatchesRawQuery(name, query) == includes(toLowerCase(basename(name)), query)

\* The filter of GET /search.
searchMatches(name, query) ==
  includes(toLowerCase(basename(name)), toLowerCase(query))

\* file.name.split('/')[0] || 'All Songs'
searchGenre(name) == IF splitFirst(name) = "" THEN "All Songs" ELSE splitFirst(name)

searchResults(b, q) ==
  LET query == searchQuery(q)
      files == SelectSeq(getFiles(b, ""), LAMBDA name : searchMatches(name, query))
  IN [i \in 1..Len(files) |->
       [name |-> basename(files[i]), url |-> publicUrl(files[i]),
        genre |-> searchGenre(files[i])]]

\* GET /search
GetSearch ==
  \E q \in QueryParams, ok \in BOOLEAN :
    /\ resp' = [op |-> "GET /search", arg |-> q, upstream |-> ok,
                status |-> IF ok THEN 200 ELSE 500,
                body |-> IF ok THEN searchResults(bucket, q) ELSE <<>>]
    /\ UNCHANGED <<bucket, del, b2Vars>>

\* file.name.includes('/') ? file.name.split('/')[0] : 'All Songs'
songsGenre(name) == IF includes(name, "/") THEN splitFirst(name) ELSE "All Songs"

\* The songs GET /songs of the second service answers with.
allSongs(b) ==
  LET files == getFiles(b, "")
  IN [i \in 1..Len(files) |->
       [name |-> files[i], url |-> publicUrl(files[i]), size |-> b[files[i]].size,
        genre |-> songsGenre(files[i])]]

\* GET /songs (second service of src/server.js; ok is the outcome of the
\* listing after its retries)
GetAllSongs ==
  \E ok \in BOOLEAN :
    /\ resp' = [op |-> "GET /songs", arg |-> <<>>, upstream |-> ok,
                status |-> IF ok THEN 200 ELSE 500,
                body |-> IF ok THEN allSongs(bucket) ELSE <<>>]
    /\ UNCHANGED <<bucket, del, b2Vars>>

\* POST /upload
PostUpload ==
  \/ /\ resp' = [op |-> "POST /upload", arg |-> <<>>, upstream |-> TRUE,
                 status |-> 400, body |-> <<>>]
     /\ UNCHANGED <<bucket, del, b2Vars>>
  \/ \E genreField \in UploadGenres, originalname \in UploadNames, ok \in BOOLEAN :
       LET fileName == uploadFileName(genreField, originalname) IN
       /\ fileName \in DOMAIN bucket \/ Cardinality(DOMAIN bucket) < MaxKeys
       /\ resp' = [op |-> "POST /upload", arg |-> <<genreField, originalname>>,
                   upstream |-> ok, status |-> IF ok THEN 200 ELSE 500,
                   body |-> IF ok THEN <<[url |-> publicUrl(fileName)]>> ELSE <<>>]
       /\ bucket' = IF ok
                    THEN [k \in DOMAIN bucket \cup {fileName} |->
                            IF k = fileName THEN [size |-> 1] ELSE bucket[k]]
                    ELSE bucket
       /\ UNCHANGED <<del, b2Vars>>

(***************************************************************************)
(* src/unnamed/part_003, first service: the earlier getFolders             *)
(***************************************************************************)

\* getFolders: "All Songs" alone if no folders exist but songs exist in the
\* root, the folder prefixes otherwise; the empty list when a listing throws.
getFoldersEarly(b, ok) ==
  IF ~ok THEN <<>>
  ELSE LET listed == prefixes(b)
       IN IF listed = <<>> /\ hasRootFiles(b) THEN <<AllSongs>>
          ELSE [i \in 1..Len(listed) |-> folderEntry(listed[i])]

\* GET /genres of the earlier service
GetGenresEarly ==
  \E ok \in BOOLEAN :
    /\ resp' = [op |-> "GET /genres (early)", arg |-> <<>>, upstream |-> ok,
                status |-> 200, body |-> getFoldersEarly(bucket, ok)]
    /\ UNCHANGED <<bucket, del, b2Vars>>

(***************************************************************************)
(* src/unnamed/part_001: search by bucket prefix                           *)
(***************************************************************************)

\* req.query.q || ''
prefixQuery(q) == IF q = <<>> THEN "" ELSE q[1]

\* prefix: query.toLowerCase()
searchPrefix(query) == toLowerCase(query)

\* files.map(file => ({ name: file.name.replace('.mp3', ''), url }))
prefixResults(b, query) ==
  LET files == getFiles(b, searchPrefix(query))
  IN [i \in 1..Len(files) |->
       [name |-> replace(files[i], ".mp3", ""), url |-> publicUrl(files[i])]]

\* The q query parameter of the prefix variant.
PrefixQueryParams == {<<>>, <<" ">>, <<"jazz">>, <<"JAZZ">>}

\* GET /search of the prefix variant
GetSearchByPrefix ==
  \E q \in PrefixQueryParams, ok \in BOOLEAN :
    LET query == prefixQuery(q) IN
    /\ resp' = IF trim(query) = ""
               THEN [op |-> "GET /search (prefix)", arg |-> q, upstream |-> TRUE,
                     status |-> 400, body |-> <<>>]
               ELSE [op |-> "GET /search (prefix)", arg |-> q, upstream |-> ok,
                     status |-> IF ok THEN 200 ELSE 500,
                     body |-> IF ok THEN prefixResults(bucket, query) ELSE <<>>]
    /\ UNCHANGED <<bucket, del, b2Vars>>

(***************************************************************************)
(* The resolver's specification                                            *)
(***************************************************************************)

Init ==
  /\ \E S \in SUBSET KeyUniverse :
       /\ Cardinality(S) <= MaxKeys
       /\ bucket = [k \in S |-> [size |-> IF endsWith(k, "/") THEN 0 ELSE 1]]
  /\ resp = NoResp
  /\ del = NoDel
  /\ TTLIdle
  /\ TokIdle /\ variant = "axios"
  /\ ReqIdle /\ svc = ""

Next ==
  \/ GetGenres
  \/ GetGenresEarly
  \/ GetSongsByGenre
  \/ GetSearch
  \/ GetSearchByPrefix
  \/ GetAllSongs
  \/ PostUpload

Spec == Init /\ [][Next]_vars

(***************************************************************************)
(* Claims about the resolver                                               *)
(***************************************************************************)

\* The object names a list of songs refers to.
keysOf(body) == {keyOfUrl(body[i].url) : i \in 1..Len(body)}

\* C5: for every key set whose listing succeeds, the list getFolders returns
\* has no two entries of the same name, and it contains the synthetic entry
\* {name: "All Songs", path: ""} if and only if some key has no '/'.
C5_FoldersDistinctAndRootIffRootKeys ==
  (resp.op = "GET /genres" /\ resp.upstream) =>
    /\ \A i, j \in 1..Len(resp.body) : i # j => resp.body[i].name # resp.body[j].name
    /\ (AllSongs \in Range(resp.body)) <=> hasRootFiles(bucket)

\* C6: the earlier getFolders includes the synthetic "All Songs" folder
\* whenever root-level keys exist, also when the bucket has folder prefixes.
C6_EarlyRootFolderWheneverRootKeys ==
  (resp.op = "GET /genres (early)" /\ resp.upstream /\ hasRootFiles(bucket)) =>
    AllSongs \in Range(resp.body)

\* C7: GET /songs/:genre for a genre g other than "All Songs": every song
\* returned is a key of the bucket that starts with "g/", its name is that key
\* without the leading "g/" (the rest unchanged, also when "g/" occurs again
\* in it), and no key that ends in '/' is returned.
C7_GenreSongsStripLeadingPrefix ==
  (resp.op = "GET /songs/:genre" /\ resp.status = 200 /\ resp.arg # <<"All Songs">>) =>
    \A i \in 1..Len(resp.body) :
      LET g == resp.arg[1]
          key == keyOfUrl(resp.body[i].url)
      IN /\ key \in DOMAIN bucket
         /\ startsWith(key, g \o "/")
         /\ resp.body[i].name = sliceFrom(key, Len(g) + 2)
         /\ ~endsWith(key, "/")

\* C7's case: a song is returned whose key holds the folder prefix twice.
C7_Witness ==
  /\ resp.op = "GET /songs/:genre" /\ resp.status = 200 /\ resp.arg = <<"jazz">>
  /\ \E i \in 1..Len(resp.body) :
       /\ keyOfUrl(resp.body[i].url) = "jazz/jazz/c.mp3"
       /\ resp.body[i].name = "jazz/c.mp3"
  /\ "jazz/" \in DOMAIN bucket

\* C8: GET /songs/:genre with genre "All Songs" returns only songs whose key
\* has no '/'.
C8_AllSongsOnlyRootKeys ==
  (resp.op = "GET /songs/:genre" /\ resp.status = 200 /\ resp.arg = <<"All Songs">>) =>
    \A key \in keysOf(resp.body) : ~includes(key, "/")

\* Two strings that differ in the case of their letters at most.
sameButCase(s, t) ==
  /\ Len(s) = Len(t)
  /\ \A i \in 1..Len(s) :
       \/ charAt(s, i) = charAt(t, i)
       \/ \E n \in 1..Len(UpperLetters) :
            {charAt(s, i), charAt(t, i)} = {charAt(UpperLetters, n), charAt(LowerLetters, n)}

\* C10: GET /search is case-insensitive: two queries that differ in letter
\* case only give the same result, and of two keys whose names differ in
\* letter case only either both are matched or neither.
C10_SearchCaseInsensitive ==
  (resp.op = "GET /search" /\ resp.status = 200) =>
    /\ \A q \in QueryParams :
         (q # <<>> /\ resp.arg # <<>> /\ sameButCase(q[1], resp.arg[1]))
           => searchResults(bucket, q) = resp.body
    /\ \A k1, k2 \in DOMAIN bucket :
         sameButCase(basename(k1), basename(k2))
           => (k1 \in keysOf(resp.body) <=> k2 \in keysOf(resp.body))

\* C10's case: an upper-case query returns keys with lower-case and with
\* upper-case names.
C10_Witness ==
  /\ resp.op = "GET /search" /\ resp.status = 200 /\ resp.arg = <<"A">>
  /\ {"jazz/a.mp3", "Jazz/A.mp3"} \subseteq keysOf(resp.body)

\* C11: GET /search of the prefix variant is case-insensitive: every key
\* whose name starts with the query, both compared without regard to letter
\* case, is returned.
C11_PrefixSearchCaseInsensitive ==
  (resp.op = "GET /search (prefix)" /\ resp.status = 200) =>
    \A k \in DOMAIN bucket :
      startsWith(toLowerCase(k), toLowerCase(resp.arg[1])) => k \in keysOf(resp.body)

\* The last path segment of a key: what follows its last '/'.
finalSegment(key) == sliceFrom(key, lastSlash(key) + 1)

\* C12: GET /search returns exactly the keys whose final path segment
\* contains the trimmed query as a case-insensitive substring; a key in whose
\* folder segment alone the query occurs is not returned.
C12_SearchMatchesFinalSegmentOnly ==
  (resp.op = "GET /search" /\ resp.status = 200) =>
    keysOf(resp.body) =
      {k \in DOMAIN bucket :
         includes(toLowerCase(finalSegment(k)), toLowerCase(searchQuery(resp.arg)))}

\* C13: for a missing, empty or blank q, GET /search is never answered 400
\* and a successful answer holds every key that does not end in '/' and no
\* key that ends in '/'.
C13_EmptyQueryReturnsAllNonMarkers ==
  (resp.op = "GET /search" /\ searchQuery(resp.arg) = "") =>
    /\ resp.status # 400
    /\ resp.status = 200 =>
         keysOf(resp.body) = {k \in DOMAIN bucket : ~endsWith(k, "/")}

\* C18: a listing that fails during GET /genres is not suppressed: the
\* response has status 500, never a 200 folder list.
C18_FailedListingAnswered500 ==
  (resp.op = "GET /genres" /\ ~resp.upstream) => resp.status = 500

\* C21: in the folder list of a GET /genres whose listing succeeded the
\* synthetic "All Songs" entry (the one with the empty path), when present, is
\* the first element; the folder entries follow in the order in which the
\* backend returned the prefixes; each folder entry has path = name + "/"; and
\* the list is determined by the key set (the synthetic entry is present
\* exactly if a key without '/' exists), so two calls on the same key set give
\* the same sequence.
C21_RootFirstThenPrefixesInOrder ==
  (resp.op = "GET /genres" /\ resp.upstream) =>
    LET body == resp.body
        rooted == body # <<>> /\ body[1].path = ""
        rest == IF rooted THEN Tail(body) ELSE body
    IN /\ \A i \in 1..Len(body) : body[i].path = "" => (i = 1 /\ body[i].name = "All Songs")
       /\ rooted <=> hasRootFiles(bucket)
       /\ [i \in 1..Len(rest) |-> rest[i].path] = prefixes(bucket)
       /\ \A i \in 1..Len(rest) : rest[i].path = rest[i].name \o "/"

\* C21's case: the synthetic entry is followed by two folders, one of them
\* called like it.
C21_Witness ==
  /\ resp.op = "GET /genres" /\ resp.upstream
  /\ Len(resp.body) = 3 /\ resp.body[1] = AllSongs
  /\ resp.body[2].path = "All Songs/" /\ resp.body[3].path = "jazz/"

\* The read endpoints of the resolver.
ReadOps == {"GET /genres", "GET /songs", "GET /songs/:genre", "GET /search"}

\* C22: the read endpoints have no side effects: whatever the arguments and
\* the outcome, the keys of the bucket and their contents are as before; and
\* a request equal to the one answered before it, with the same outcome of
\* the listing, gets an equal answer.
C22_ReadEndpointsHaveNoSideEffects ==
  [][resp'.op \in ReadOps =>
       /\ bucket' = bucket
       /\ (resp.op = resp'.op /\ resp.arg = resp'.arg /\ resp.upstream = resp'.upstream)
            => resp' = resp]_vars

\* C22's case: a read request has failed on a bucket that holds an uploaded
\* song and a folder marker.
C22_Witness ==
  /\ resp.op = "GET /songs/:genre" /\ resp.status = 500
  /\ {"Other/new.mp3", "jazz/"} \subseteq DOMAIN bucket

\* C28: GET /search and GET /songs of the same service report the same genre
\* for every key: its first path segment if the key contains '/', and
\* "All Songs" if it does not.
C28_SearchAndSongsAgreeOnGenre ==
  (resp.op = "GET /songs" /\ resp.status = 200) =>
    LET search == searchResults(bucket, <<>>) IN
    \A i \in 1..Len(resp.body) :
      /\ resp.body[i].genre = IF includes(resp.body[i].name, "/")
                              THEN splitFirst(resp.body[i].name) ELSE "All Songs"
      /\ \A j \in 1..Len(search) :
           search[j].url = resp.body[i].url => search[j].genre = resp.body[i].genre

\* The genre of the upload answered last: the genre field, "Other" without.
uploadedGenre == IF resp.arg[1] = "" THEN "Other" ELSE resp.arg[1]

\* C29: after a POST /upload of a file named f with genre g has succeeded, a
\* GET /genres lists a folder named g, and a GET /songs/g lists a song named
\* f whose url is the url the upload returned.
C29_UploadedSongIsListed ==
  [][(resp.op = "POST /upload" /\ resp.status = 200) =>
       /\ (resp'.op = "GET /genres" /\ resp'.upstream)
            => \E i \in 1..Len(resp'.body) : resp'.body[i].name = uploadedGenre
       /\ (resp'.op = "GET /songs/:genre" /\ resp'.status = 200
             /\ resp'.arg = <<uploadedGenre>>)
            => \E i \in 1..Len(resp'.body) :
                 /\ resp'.body[i].name = resp.arg[2]
                 /\ resp'.body[i].url = resp.body[1].url]_vars

\* C30: POST /upload never creates a root-level object: a successful upload
\* stores exactly the key "<genre>/<originalname>" with a non-empty genre, so
\* it does not change whether GET /genres shows the synthetic "All Songs"
\* folder; a request without a file stores nothing and is answered 400; a
\* failed upload stores nothing.
C30_UploadNeverCreatesRootObject ==
  [][resp'.op = "POST /upload" =>
       IF resp'.arg = <<>> THEN resp'.status = 400 /\ bucket' = bucket
       ELSE IF resp'.status # 200 THEN bucket' = bucket
       ELSE LET genre == IF resp'.arg[1] = "" THEN "Other" ELSE resp'.arg[1]
                key == genre \o "/" \o resp'.arg[2]
            IN /\ DOMAIN bucket' = DOMAIN bucket \cup {key}
               /\ \A k \in DOMAIN bucket \ {key} : bucket'[k] = bucket[k]
               /\ \A k \in DOMAIN bucket' \ DOMAIN bucket : includes(k, "/")
               /\ (AllSongs \in Range(getFolders(bucket', TRUE)))
                    <=> (AllSongs \in Range(getFolders(bucket, TRUE)))]_vars

\* C30's case: an upload without a genre field has stored its file in a
\* bucket that has no root-level object.
C30_Witness ==
  /\ resp.op = "POST /upload" /\ resp.status = 200 /\ resp.arg = <<"", "new.mp3">>
  /\ "Other/new.mp3" \in DOMAIN bucket
  /\ ~hasRootFiles(bucket)

(***************************************************************************)
(* src/unnamed/part_008: folders with placeholder objects                  *)
(***************************************************************************)

\* getFolderName: path.dirname, '' for the root.
getFolderName(filePath) == IF dirname(filePath) = "." THEN "" ELSE dirname(filePath)

\* The songs GET /songs/:folder and GET /songs answer with: the listed files
\* whose name does not end in '/'.
dirSongs(b, prefix) ==
  LET files == SelectSeq(getFiles(b, prefix), LAMBDA name : ~endsWith(name, "/"))
  IN [i \in 1..Len(files) |->
       [name |-> basename(files[i]), url |-> publicUrl(files[i]),
        size |-> b[files[i]].size, folder |-> getFolderName(files[i])]]

\* GET /songs/:folder
GetSongsByFolder ==
  \E folder \in FolderNames, ok \in BOOLEAN :
    /\ resp' = [op |-> "GET /songs/:folder", arg |-> <<folder>>, upstream |-> ok,
                status |-> IF ok THEN 200 ELSE 500,
                body |-> IF ok THEN dirSongs(bucket, folder \o "/") ELSE <<>>]
    /\ UNCHANGED <<bucket, del, b2Vars>>

\* GET /songs
GetSongs ==
  \E ok \in BOOLEAN :
    /\ resp' = [op |-> "GET /songs", arg |-> <<>>, upstream |-> ok,
                status |-> IF ok THEN 200 ELSE 500,
                body |-> IF ok THEN dirSongs(bucket, "") ELSE <<>>]
    /\ UNCHANGED <<bucket, del, b2Vars>>

\* bucket.file(name).save(data): the object is created or overwritten.
save(b, name, size) ==
  [k \in DOMAIN b \cup {name} |-> IF k = name THEN [size |-> size] ELSE b[k]]

\* bucket.file(name).delete() where the object exists.
remove(b, name) == [k \in DOMAIN b \ {name} |-> b[k]]

\* POST /upload: 400 without a file; 500 when save or makePublic throws (the
\* object is stored when only makePublic threw).
PostUploadToFolder ==
  \/ /\ resp' = [op |-> "POST /upload", arg |-> <<>>, upstream |-> TRUE,
                 status |-> 400, body |-> <<>>]
     /\ UNCHANGED <<bucket, del, b2Vars>>
  \/ \E folder \in UploadFolders, originalname \in DirUploadNames, size \in UploadSizes,
        saved \in BOOLEAN, madePublic \in BOOLEAN :
       LET fileName == dirFileName(folder, originalname) IN
       /\ fileName \in DOMAIN bucket \/ Cardinality(DOMAIN bucket) < MaxKeys
       /\ saved \/ ~madePublic
       /\ resp' = [op |-> "POST /upload", arg |-> <<folder, originalname>>,
                   upstream |-> saved /\ madePublic,
                   status |-> IF saved /\ madePublic THEN 200 ELSE 500,
                   body |-> IF saved /\ madePublic
                            THEN <<[url |-> publicUrl(fileName), folder |-> folder]>>
                            ELSE <<>>]
       /\ bucket' = IF saved THEN save(bucket, fileName, size) ELSE bucket
       /\ UNCHANGED <<del, b2Vars>>

\* POST /folders: 400 without a name; otherwise the empty placeholder
\* `${folderName}/.keep` is saved.
PostFolders ==
  \/ /\ resp' = [op |-> "POST /folders", arg |-> <<>>, upstream |-> TRUE,
                 status |-> 400, body |-> <<>>]
     /\ UNCHANGED <<bucket, del, b2Vars>>
  \/ \E folderName \in FolderNames, ok \in BOOLEAN :
       /\ folderPath(folderName) \in DOMAIN bucket \/ Cardinality(DOMAIN bucket) < MaxKeys
       /\ resp' = [op |-> "POST /folders", arg |-> <<folderName>>, upstream |-> ok,
                   status |-> IF ok THEN 200 ELSE 500,
                   body |-> IF ok THEN <<[name |-> folderName]>> ELSE <<>>]
       /\ bucket' = IF ok THEN save(bucket, folderPath(folderName), 0) ELSE bucket
       /\ UNCHANGED <<del, b2Vars>>

\* DELETE /songs/:name: delete() throws when the object does not exist or the
\* backend fails.
DeleteSong ==
  \E fileName \in DeleteNames, ok \in BOOLEAN :
    LET deleted == ok /\ fileName \in DOMAIN bucket IN
    /\ resp' = [op |-> "DELETE /songs/:name", arg |-> <<fileName>>, upstream |-> ok,
                status |-> IF deleted THEN 200 ELSE 500, body |-> <<>>]
    /\ bucket' = IF deleted THEN remove(bucket, fileName) ELSE bucket
    /\ UNCHANGED <<del, b2Vars>>

\* DELETE /folders/:name, first await: the files of the folder are listed. With
\* no file to delete Promise.all resolves at once.
DeleteFolderList ==
  \E folderName \in FolderNames, ok \in BOOLEAN :
    LET files == Range(getFiles(bucket, folderName \o "/")) IN
    /\ ~del.active
    /\ IF ok /\ files # {}
       THEN /\ del' = [active |-> TRUE, folder |-> folderName, todo |-> files,
                       failed |-> FALSE, removed |-> {}]
            /\ UNCHANGED resp
       ELSE /\ resp' = [op |-> "DELETE /folders/:name", arg |-> <<folderName>>,
                        upstream |-> ok, status |-> IF ok THEN 200 ELSE 500,
                        body |-> <<>>]
            /\ UNCHANGED del
    /\ UNCHANGED <<bucket, b2Vars>>

\* DELETE /folders/:name, Promise.all(files.map(file => file.delete())): one
\* of the deletions settles. The first that throws rejects Promise.all and the
\* handler answers 500 while the other deletions go on; when all have
\* succeeded it answers 200.
DeleteFolderFile ==
  \E name \in del.todo, ok \in BOOLEAN :
    LET deleted == ok /\ name \in DOMAIN bucket
        todo == del.todo \ {name}
        failed == del.failed \/ ~deleted
    IN
    /\ del.active
    /\ bucket' = IF deleted THEN remove(bucket, name) ELSE bucket
    /\ del' = IF todo = {} THEN NoDel
              ELSE [del EXCEPT !.todo = todo, !.failed = failed,
                               !.removed = IF deleted THEN @ \cup {name} ELSE @]
    /\ resp' = IF ~deleted /\ ~del.failed
               THEN [op |-> "DELETE /folders/:name", arg |-> <<del.folder>>,
                     upstream |-> FALSE, status |-> 500, body |-> <<>>]
               ELSE IF todo = {} /\ ~failed
               THEN [op |-> "DELETE /folders/:name", arg |-> <<del.folder>>,
                     upstream |-> TRUE, status |-> 200, body |-> <<>>]
               ELSE resp
    /\ UNCHANGED b2Vars

InitDir ==
  /\ \E S \in SUBSET DirInitialKeys : bucket = [k \in S |-> [size |-> 0]]
  /\ resp = NoResp
  /\ del = NoDel
  /\ TTLIdle
  /\ TokIdle /\ variant = "axios"
  /\ ReqIdle /\ svc = ""

NextDir ==
  \/ GetSongsByFolder
  \/ GetSongs
  \/ PostUploadToFolder
  \/ PostFolders
  \/ DeleteSong
  \/ DeleteFolderList
  \/ DeleteFolderFile

SpecDir == InitDir /\ [][NextDir]_vars

\* C9: folder markers are never listed as songs: after any sequence of POST
\* /folders, POST /upload and DELETE requests, GET /songs/:folder and GET
\* /songs return no entry for a key that ends with '/' and none for the
\* zero-length placeholder "<folder>/.keep" that POST /folders creates.
C9_NoFolderMarkerListed ==
  (resp.op \in {"GET /songs/:folder", "GET /songs"} /\ resp.status = 200) =>
    \A i \in 1..Len(resp.body) :
      /\ ~endsWith(keyOfUrl(resp.body[i].url), "/")
      /\ ~(resp.body[i].name = ".keep" /\ resp.body[i].size = 0)

\* C23: DELETE /folders/:name is all-or-nothing: the step at which the
\* handler answers (the first rejected deletion, or the last deletion when
\* none was rejected) answers 200 only when no key with the prefix
\* "<name>/" remains in the bucket, and answers an error only when the
\* request has removed no key of the folder, whatever other requests ran
\* between its listing and its deletions.
C23_FolderDeletionAllOrNothing ==
  [][(del.active /\ ~del.failed /\ del' # del
        /\ (bucket' = bucket \/ ~del'.active)) =>
       /\ resp'.op = "DELETE /folders/:name" /\ resp'.arg = <<del.folder>>
       /\ IF resp'.status = 200
          THEN getFiles(bucket', del.folder \o "/") = <<>>
          ELSE del.removed = {} /\ bucket' = bucket]_vars

(***************************************************************************)
(* src/unnamed/part_003, second service: the B2 issuer with the TTL cache  *)
(***************************************************************************)

\* const CACHE_TTL = process.env.CACHE_TTL || 3600, in seconds.
CACHE_TTL == 3600

\* How often the clock advances, and how many b2.authorize() calls are made.
MaxTicks == 3

MaxAuthCalls == 3

\* The amounts by which the clock advances, in milliseconds: two of them
\* reach the expiry time exactly.
ClockSteps == {1, CACHE_TTL * 1000 - 1}

\* A service without the cache check authorizes on every call.
cacheNeverValid(c, t) == FALSE

\* A cache check that forgets the expiry.
cacheValidWithoutExpiry(c, t) == c.auth # 0

\* cache.auth && cache.authExpiry > Date.now()
cacheValid(c, t) == c.auth # 0 /\ c.authExpiry > t

\* A refresh that keeps a credential another call has cached meanwhile
\* (first write wins).
refreshedUnlessValid(c, auth, t) ==
  IF c.auth # 0 /\ c.authExpiry > t THEN c
  ELSE [c EXCEPT !.auth = auth, !.authExpiry = t + (CACHE_TTL * 1000)]

\* cache.auth = auth; cache.authExpiry = Date.now() + (CACHE_TTL * 1000)
refreshed(c, auth, t) == [c EXCEPT !.auth = auth, !.authExpiry = t + (CACHE_TTL * 1000)]

\* A caller calls authorizeB2(): the cached credential is returned if it is
\* there and has not expired; otherwise b2.authorize() is called and awaited.
CallAuthorizeB2(p) ==
  /\ pc[p] = "idle"
  /\ IF cacheValid(cache, now)
     THEN /\ pc' = [pc EXCEPT ![p] = "returned"]
          /\ found' = [found EXCEPT ![p] = "valid"]
          /\ ret' = [ret EXCEPT ![p] = cache.auth]
          /\ UNCHANGED <<authCalls, mine>>
     ELSE /\ authCalls < MaxAuthCalls
          /\ authCalls' = authCalls + 1
          /\ mine' = [mine EXCEPT ![p] = authCalls + 1]
          /\ found' = [found EXCEPT ![p] = IF cache.auth = 0 THEN "empty" ELSE "expired"]
          /\ pc' = [pc EXCEPT ![p] = "authorizing"]
          /\ UNCHANGED ret
  /\ UNCHANGED <<now, ticks, cache, issued, rejected, lastOk, gcsVars, tokVars, reqVars>>

\* b2.authorize() resolves: the result is cached with a new expiry and returned.
AuthorizeResolves(p) ==
  /\ pc[p] = "authorizing"
  /\ cache' = refreshed(cache, mine[p], now)
  /\ ret' = [ret EXCEPT ![p] = mine[p]]
  /\ pc' = [pc EXCEPT ![p] = "returned"]
  /\ issued' = issued \cup {mine[p]}
  /\ lastOk' = [id |-> mine[p], at |-> now]
  /\ UNCHANGED <<now, ticks, authCalls, found, mine, rejected, gcsVars, tokVars, reqVars>>

\* A catch block that marks the issuer authenticated although b2.authorize()
\* rejected.
AuthorizeRejectsCachingFailure(p) ==
  /\ pc[p] = "authorizing"
  /\ pc' = [pc EXCEPT ![p] = "thrown"]
  /\ rejected' = rejected \cup {mine[p]}
  /\ cache' = refreshed(cache, mine[p], now)
  /\ UNCHANGED <<now, ticks, authCalls, found, mine, ret, issued, lastOk,
                 gcsVars, tokVars, reqVars>>

\* b2.authorize() rejects: authorizeB2() throws 'Failed to authenticate with
\* Backblaze B2'.
AuthorizeRejects(p) ==
  /\ pc[p] = "authorizing"
  /\ pc' = [pc EXCEPT ![p] = "thrown"]
  /\ rejected' = rejected \cup {mine[p]}
  /\ UNCHANGED <<now, ticks, cache, authCalls, found, mine, ret, issued, lastOk,
                 gcsVars, tokVars, reqVars>>

\* The caller goes on after authorizeB2() returned or threw: the app.listen
\* callback ends, a request handler becomes free for the next request.
CallerGoesOn(p) ==
  /\ pc[p] \in {"returned", "thrown"}
  /\ pc' = [pc EXCEPT ![p] = IF p = "listen" THEN "done" ELSE "idle"]
  /\ found' = [found EXCEPT ![p] = ""]
  /\ mine' = [mine EXCEPT ![p] = 0]
  /\ ret' = [ret EXCEPT ![p] = 0]
  /\ UNCHANGED <<now, ticks, cache, authCalls, issued, rejected, lastOk, gcsVars, tokVars, reqVars>>

\* Time passes.
Tick ==
  \E d \in ClockSteps :
    /\ ticks < MaxTicks
    /\ ticks' = ticks + 1
    /\ now' = now + d
    /\ UNCHANGED <<cache, authCalls, pc, found, mine, ret, issued, rejected, lastOk,
                   gcsVars, tokVars, reqVars>>

InitTTL ==
  /\ bucket = <<>> /\ resp = NoResp /\ del = NoDel
  /\ TTLIdle
  /\ TokIdle /\ variant = "axios"
  /\ ReqIdle /\ svc = ""

NextTTL ==
  \/ \E p \in Procs : CallAuthorizeB2(p)
  \/ \E p \in Procs : AuthorizeResolves(p)
  \/ \E p \in Procs : AuthorizeRejects(p)
  \/ \E p \in Procs : CallerGoesOn(p)
  \/ Tick

SpecTTL == InitTTL /\ [][NextTTL]_vars

\* Process p makes a step that is a call of authorizeB2().
calls(p) == pc[p] = "idle" /\ pc'[p] # "idle"

\* C1: a call of authorizeB2() made while cache.auth is set and now <
\* cache.authExpiry returns the credential the call before it returned (the
\* cached one) and makes no b2.authorize() call: of two such sequential calls
\* only the first, which found the cache empty, has authorized.
C1_CachedCredentialReturnedWithoutAuthorize ==
  [][\A p \in Procs :
       (calls(p) /\ cache.auth # 0 /\ now < cache.authExpiry) =>
         /\ pc'[p] = "returned"
         /\ ret'[p] = lastOk.id
         /\ ret'[p] = cache.auth
         /\ authCalls' = authCalls
         /\ cache' = cache]_vars

\* C1's case: one b2.authorize() call has been made, and a later call of
\* authorizeB2() has returned its result from the cache.
C1_Witness ==
  \E p \in Procs :
    /\ pc[p] = "returned" /\ found[p] = "valid"
    /\ authCalls = 1 /\ ret[p] = 1

\* C2: once now >= cache.authExpiry, the next call of authorizeB2() calls
\* b2.authorize() exactly once; when that resolves, cache.auth is replaced by
\* the new result and cache.authExpiry is set strictly later than now; calls
\* within the new TTL make no further b2.authorize() call.
C2_RefreshAfterExpiry ==
  [][\A p \in Procs :
       /\ (calls(p) /\ cache.auth # 0 /\ now >= cache.authExpiry) =>
            (authCalls' = authCalls + 1 /\ pc'[p] = "authorizing" /\ mine'[p] = authCalls')
       /\ (pc[p] = "authorizing" /\ pc'[p] = "returned") =>
            /\ cache'.auth = mine[p] /\ cache'.auth # cache.auth
            /\ ret'[p] = cache'.auth
            /\ cache'.authExpiry > now'
            /\ authCalls' = authCalls
       /\ (calls(p) /\ cache.auth # 0 /\ now < cache.authExpiry) =>
            (authCalls' = authCalls /\ ret'[p] = cache.auth)]_vars

\* C2's case: a call that found the cache expired has replaced it.
C2_Witness ==
  \E p \in Procs :
    /\ pc[p] = "returned" /\ found[p] = "expired"
    /\ cache.auth = ret[p] /\ cache.authExpiry > now
    /\ now >= CACHE_TTL * 1000

\* C4: concurrent calls of authorizeB2() (the app.listen callback included)
\* that find the cache empty or expired each make their own b2.authorize()
\* call; each call that returns returns the result of a b2.authorize() call
\* that resolved, a call throws only if its own b2.authorize() call rejected,
\* none waits for another, and once none is in flight cache.auth is the result
\* of the b2.authorize() call that resolved last, with cache.authExpiry later
\* than the time it resolved.
C4_ConcurrentRefreshLastWriteWins ==
  /\ \A p \in Procs :
       /\ pc[p] = "returned" => ret[p] \in issued
       /\ pc[p] = "thrown" => mine[p] \in rejected
       /\ pc[p] = "authorizing" => ENABLED (AuthorizeResolves(p) \/ AuthorizeRejects(p))
  /\ ((\A p \in Procs : pc[p] # "authorizing") /\ lastOk.id # 0) =>
       (cache.auth = lastOk.id /\ cache.authExpiry > lastOk.at)

\* C4's case: two calls authorized concurrently, and the one that called
\* b2.authorize() first got its answer last.
C4_Witness ==
  /\ \E p, q \in Procs :
       /\ p # q
       /\ pc[p] = "returned" /\ pc[q] = "returned"
       /\ mine[p] = 1 /\ mine[q] = 2
  /\ \A p \in Procs : pc[p] # "authorizing"
  /\ cache.auth = 1 /\ lastOk.id = 1

\* C26: a failed authorization leaves the credential cache unchanged: the
\* step at which b2.authorize() rejects makes authorizeB2() throw and changes
\* neither cache.auth nor cache.authExpiry, no rejected authorization is ever
\* the cached credential, and a call of authorizeB2() that finds no valid
\* cached credential (as the call after a failure on an empty or expired
\* cache does) calls b2.authorize() again.
C26_FailedAuthorizationLeavesCache ==
  [][\A p \in Procs :
       /\ (pc[p] = "authorizing" /\ pc'[p] = "thrown") =>
            (cache' = cache /\ ret' = ret /\ mine[p] \notin issued')
       /\ cache'.auth \notin rejected'
       /\ (calls(p) /\ ~(cache.auth # 0 /\ cache.authExpiry > now)) =>
            (pc'[p] = "authorizing" /\ authCalls' = authCalls + 1)]_vars

\* C26's case: a call that found the cache empty has thrown, the cache is
\* still empty, and the next call of the same caller is authorizing again.
C26_Witness ==
  \E p \in Procs :
    /\ pc[p] = "authorizing" /\ mine[p] = 2 /\ found[p] = "empty"
    /\ rejected = {1} /\ issued = {}
    /\ cache = EmptyCache

(***************************************************************************)
(* src/unnamed/part_003, second service: GET /api/songs and its file-list  *)
(* cache                                                                   *)
(***************************************************************************)

\* The file names the B2 bucket may hold.
SongKeys == {"a.mp3", "b.mp3"}

\* The requests to GET /api/songs, served one after the other.
SongHandlers == {"r1"}

\* cache.files && cache.filesExpiry > Date.now()
fileCacheValid(c, t) == c.files # <<>> /\ c.filesExpiry > t

\* cache.files = songs; cache.filesExpiry = Date.now() + (CACHE_TTL * 1000)
cachedFiles(c, songs, t) ==
  [c EXCEPT !.files = <<songs>>, !.filesExpiry = t + (CACHE_TTL * 1000)]

\* res.json(...) / res.status(500).json(...)
songsAnswer(s, status, body) == [s EXCEPT !.res = [status |-> status, body |-> body]]

\* A request to GET /api/songs arrives at a free handler: the handler calls
\* authorizeB2() (CallAuthorizeB2) and awaits it. When it has returned, the
\* handler answers with the cached list if there is one that has not expired,
\* and otherwise calls b2.listFileNames.
SongsAuthorized(p) ==
  /\ pc[p] = "returned"
  /\ IF fileCacheValid(cache, now)
     THEN /\ sloc' = [sloc EXCEPT ![p] = songsAnswer(@, 200, cache.files[1])]
          /\ pc' = [pc EXCEPT ![p] = "answered"]
     ELSE /\ sloc' = [sloc EXCEPT ![p].backendCalls = 1]
          /\ pc' = [pc EXCEPT ![p] = "listing"]
  /\ UNCHANGED <<now, ticks, cache, authCalls, found, mine, ret, issued, rejected, lastOk,
                 svc, hpc, hreq, hloc, hres, retry, gcsVars, tokVars>>

\* authorizeB2() has thrown: the catch block answers 500.
SongsUnauthorized(p) ==
  /\ pc[p] = "thrown"
  /\ sloc' = [sloc EXCEPT ![p] = songsAnswer(@, 500, {})]
  /\ pc' = [pc EXCEPT ![p] = "answered"]
  /\ UNCHANGED <<now, ticks, cache, authCalls, found, mine, ret, issued, rejected, lastOk,
                 svc, hpc, hreq, hloc, hres, retry, gcsVars, tokVars>>

\* b2.listFileNames settles. When it rejects the catch block answers 500.
\* Otherwise one b2.getDownloadUrl call per file is started (Promise.all);
\* with no file the empty list is cached and sent.
ListingSettles(p) ==
  \E ok \in BOOLEAN :
    LET files == DOMAIN bucket IN
    /\ pc[p] = "listing"
    /\ IF ~ok
       THEN /\ sloc' = [sloc EXCEPT ![p] = songsAnswer(@, 500, {})]
            /\ pc' = [pc EXCEPT ![p] = "answered"]
            /\ UNCHANGED cache
       ELSE IF files = {}
       THEN /\ cache' = cachedFiles(cache, {}, now)
            /\ sloc' = [sloc EXCEPT ![p] = songsAnswer(@, 200, {})]
            /\ pc' = [pc EXCEPT ![p] = "answered"]
       ELSE /\ sloc' = [sloc EXCEPT ![p].files = files, ![p].todo = files,
                                    ![p].backendCalls = @ + Cardinality(files)]
            /\ pc' = [pc EXCEPT ![p] = "signing"]
            /\ UNCHANGED cache
    /\ UNCHANGED <<now, ticks, authCalls, found, mine, ret, issued, rejected, lastOk,
                   svc, hpc, hreq, hloc, hres, retry, gcsVars, tokVars>>

\* A catch block that keeps the urls generated so far in the cache.
UrlSettlesCachingPartial(p) ==
  \E file \in sloc[p].todo, ok \in BOOLEAN :
    LET todo == sloc[p].todo \ {file}
        songs == IF ok THEN sloc[p].songs \cup {file} ELSE sloc[p].songs
    IN
    /\ pc[p] = "signing"
    /\ cache' = IF ok /\ todo # {} THEN cache ELSE cachedFiles(cache, songs, now)
    /\ sloc' = [sloc EXCEPT ![p] =
                  IF ~ok THEN songsAnswer(@, 500, {})
                  ELSE IF todo = {}
                  THEN songsAnswer([@ EXCEPT !.todo = {}, !.songs = songs], 200, songs)
                  ELSE [@ EXCEPT !.todo = todo, !.songs = songs]]
    /\ pc' = [pc EXCEPT ![p] = IF ok /\ todo # {} THEN "signing" ELSE "answered"]
    /\ UNCHANGED <<now, ticks, authCalls, found, mine, ret, issued, rejected, lastOk,
                   svc, hpc, hreq, hloc, hres, retry, gcsVars, tokVars>>

\* One of the b2.getDownloadUrl calls settles. The first that rejects rejects
\* Promise.all and the catch block answers 500; when all have resolved the
\* list is cached with a new expiry and sent.
UrlSettles(p) ==
  \E file \in sloc[p].todo, ok \in BOOLEAN :
    LET todo == sloc[p].todo \ {file}
        songs == sloc[p].songs \cup {file}
    IN
    /\ pc[p] = "signing"
    /\ cache' = IF ok /\ todo = {} THEN cachedFiles(cache, songs, now) ELSE cache
    /\ sloc' = [sloc EXCEPT ![p] =
                  IF ~ok THEN songsAnswer(@, 500, {})
                  ELSE IF todo = {}
                  THEN songsAnswer([@ EXCEPT !.todo = {}, !.songs = songs], 200, songs)
                  ELSE [@ EXCEPT !.todo = todo, !.songs = songs]]
    /\ pc' = [pc EXCEPT ![p] = IF ok /\ todo # {} THEN "signing" ELSE "answered"]
    /\ UNCHANGED <<now, ticks, authCalls, found, mine, ret, issued, rejected, lastOk,
                   svc, hpc, hreq, hloc, hres, retry, gcsVars, tokVars>>

\* The response is sent and the handler is free for the next request.
SongsEnds(p) ==
  /\ pc[p] = "answered"
  /\ pc' = [pc EXCEPT ![p] = "idle"]
  /\ sloc' = [sloc EXCEPT ![p] = NoSongs]
  /\ found' = [found EXCEPT ![p] = ""]
  /\ mine' = [mine EXCEPT ![p] = 0]
  /\ ret' = [ret EXCEPT ![p] = 0]
  /\ UNCHANGED <<now, ticks, cache, authCalls, issued, rejected, lastOk,
                 svc, hpc, hreq, hloc, hres, retry, gcsVars, tokVars>>

\* A file is stored in the bucket or removed from it by its owner (the
\* service itself does neither).
BucketChanges ==
  \E k \in SongKeys :
    /\ bucket' = IF k \in DOMAIN bucket
                 THEN [n \in DOMAIN bucket \ {k} |-> bucket[n]]
                 ELSE [n \in DOMAIN bucket \cup {k} |-> IF n = k THEN [size |-> 0] ELSE bucket[n]]
    /\ UNCHANGED <<resp, del, b2Vars>>

InitSongs ==
  /\ \E S \in SUBSET SongKeys : bucket = [k \in S |-> [size |-> 0]]
  /\ resp = NoResp /\ del = NoDel
  /\ TTLIdle
  /\ TokIdle /\ variant = "axios"
  /\ ReqIdle /\ svc = ""

NextSongs ==
  \/ \E p \in SongHandlers : CallAuthorizeB2(p)
  \/ \E p \in SongHandlers : AuthorizeResolves(p)
  \/ \E p \in SongHandlers : AuthorizeRejects(p)
  \/ \E p \in SongHandlers : SongsAuthorized(p)
  \/ \E p \in SongHandlers : SongsUnauthorized(p)
  \/ \E p \in SongHandlers : ListingSettles(p)
  \/ \E p \in SongHandlers : UrlSettles(p)
  \/ \E p \in SongHandlers : SongsEnds(p)
  \/ BucketChanges
  \/ Tick

SpecSongs == InitSongs /\ [][NextSongs]_vars

\* Handler p makes the step at which it sends its response.
answers(p) == pc[p] # "answered" /\ pc'[p] = "answered"

\* C27: the file-list cache of GET /api/songs. A request is answered without
\* a listFileNames or getDownloadUrl call only with the cached list and only
\* while now < cache.filesExpiry; a request that finds no list or finds it
\* expired calls listFileNames, and when it succeeds it has made one url call
\* per listed file and replaces cache.files by the complete list and
\* cache.filesExpiry by now + CACHE_TTL, both in one step; a request that is
\* answered with an error leaves both unchanged; and nothing else changes them.
C27_FileListCache ==
  [][/\ \A p \in SongHandlers :
          LET s == sloc'[p] IN
          /\ (answers(p) /\ s.res.status = 200 /\ s.backendCalls = 0) =>
               /\ cache.files # <<>> /\ now < cache.filesExpiry
               /\ s.res.body = cache.files[1]
               /\ cache' = cache
          /\ (pc[p] = "returned" /\ pc'[p] # "returned") =>
               IF cache.files # <<>> /\ now < cache.filesExpiry
               THEN answers(p) /\ s.res.status = 200 /\ s.backendCalls = 0
               ELSE pc'[p] = "listing" /\ s.backendCalls = 1
          /\ (answers(p) /\ s.res.status = 200 /\ s.backendCalls > 0) =>
               /\ s.res.body = sloc[p].files
               /\ s.backendCalls = 1 + Cardinality(s.res.body)
               /\ cache'.files = <<s.res.body>>
               /\ cache'.filesExpiry = now + (CACHE_TTL * 1000)
          /\ (answers(p) /\ s.res.status # 200) =>
               (cache'.files = cache.files /\ cache'.filesExpiry = cache.filesExpiry)
     /\ (cache'.files # cache.files \/ cache'.filesExpiry # cache.filesExpiry) =>
          \E p \in SongHandlers :
            /\ answers(p) /\ sloc'[p].res.status = 200 /\ sloc'[p].backendCalls > 0
            /\ cache'.files # <<>> /\ cache'.filesExpiry > now]_vars

\* C27's case: after the first hour a request has listed the bucket and
\* cached the list, the bucket has changed since, and a later request is
\* answered with the cached list without a backend call.
C27_Witness ==
  \E p \in SongHandlers :
    /\ pc[p] = "answered" /\ sloc[p].res.status = 200 /\ sloc[p].backendCalls = 0
    /\ sloc[p].res.body = {"a.mp3", "b.mp3"} /\ DOMAIN bucket = {"a.mp3"}
    /\ now > CACHE_TTL * 1000 /\ cache.filesExpiry > now

(***************************************************************************)
(* src/unnamed/part_004 ("axios") and src/unnamed/part_010 ("flag"): the   *)
(* B2 issuers that keep the authorization until the process ends           *)
(***************************************************************************)

\* How many authorization calls are made.
MaxTokCalls == 2

\* part_004: authToken is set; part_010: b2Authorized is set.
authenticated == IF variant = "axios" THEN authToken # 0 ELSE b2Authorized

\* The query parameter of a request: <<>> when the request has none, <<s>>
\* otherwise.
TokQueries == {<<>>, <<"">>, <<"jazz">>}

\* A handler that takes every query as given.
queryNeverMissing(q) == FALSE

\* !query
queryMissing(q) == q = <<>> \/ q[1] = ""

\* A request arrives at GET /api/search or GET /api/stream/:fileId. part_004
\* answers a search without a query with 400. The handler authorizes if the
\* issuer is not authenticated (if (!authToken) await authorizeB2(); resp.
\* if (!b2Authorized) { await b2.authorize(); ... }) and otherwise sends its
\* backend call with the token held.
HandlerStarts(h) ==
  \E route \in {"/api/search", "/api/stream/:fileId"}, query \in TokQueries :
    /\ tpc[h] = "idle"
    /\ treq' = [treq EXCEPT ![h] = [route |-> route, query |-> query]]
    /\ IF variant = "axios" /\ route = "/api/search" /\ queryMissing(query)
       THEN /\ tpc' = [tpc EXCEPT ![h] = "answered400"]
            /\ UNCHANGED <<tokCalls, used, turl>>
       ELSE IF ~authenticated
       THEN /\ tokCalls < MaxTokCalls
            /\ tokCalls' = tokCalls + 1
            /\ used' = [used EXCEPT ![h] = tokCalls + 1]
            /\ tpc' = [tpc EXCEPT ![h] = "authorizing"]
            /\ UNCHANGED turl
       ELSE /\ used' = [used EXCEPT ![h] = authToken]
            /\ turl' = [turl EXCEPT ![h].api = apiUrl]
            /\ tpc' = [tpc EXCEPT ![h] = "calling"]
            /\ UNCHANGED tokCalls
    /\ UNCHANGED <<variant, authToken, apiUrl, downloadUrl, b2Authorized, validTokens,
                   gcsVars, ttlVars, reqVars>>

\* The authorization call resolves: part_004 stores authorizationToken, apiUrl
\* and downloadUrl of the response; in part_010 the B2 client keeps the token
\* and the flag is set. The handler goes on to its backend call.
AuthorizationResolves(h) ==
  /\ tpc[h] = "authorizing"
  /\ authToken' = used[h]
  /\ IF variant = "axios"
     THEN apiUrl' = used[h] /\ downloadUrl' = used[h] /\ UNCHANGED b2Authorized
     ELSE b2Authorized' = TRUE /\ UNCHANGED <<apiUrl, downloadUrl>>
  /\ validTokens' = validTokens \cup {used[h]}
  /\ turl' = [turl EXCEPT ![h].api = apiUrl']
  /\ tpc' = [tpc EXCEPT ![h] = "calling"]
  /\ UNCHANGED <<variant, tokCalls, used, treq, gcsVars, ttlVars, reqVars>>

\* The authorization call rejects: the handler answers 500.
AuthorizationRejects(h) ==
  /\ tpc[h] = "authorizing"
  /\ tpc' = [tpc EXCEPT ![h] = "answered500"]
  /\ UNCHANGED <<variant, authToken, apiUrl, downloadUrl, b2Authorized, tokCalls,
                 validTokens, used, treq, turl, gcsVars, ttlVars, reqVars>>

\* The backend answers the listing or download-authorization call: it rejects
\* a token it no longer accepts, and may fail for other reasons; the catch
\* block answers 500. With the download authorization the stream handler of
\* part_004 builds its url from downloadUrl, which it reads now.
BackendAnswers(h) ==
  \E ok \in BOOLEAN :
    LET answered == ok /\ used[h] \in validTokens IN
    /\ tpc[h] = "calling"
    /\ tpc' = [tpc EXCEPT ![h] = IF answered THEN "answered200" ELSE "answered500"]
    /\ turl' = IF answered /\ treq[h].route = "/api/stream/:fileId"
               THEN [turl EXCEPT ![h].base = downloadUrl]
               ELSE turl
    /\ UNCHANGED <<variant, authToken, apiUrl, downloadUrl, b2Authorized, tokCalls,
                   validTokens, used, treq, gcsVars, ttlVars, reqVars>>

\* The handler has sent its response.
HandlerEnds(h) ==
  /\ tpc[h] \in {"answered200", "answered400", "answered500"}
  /\ tpc' = [tpc EXCEPT ![h] = "idle"]
  /\ used' = [used EXCEPT ![h] = 0]
  /\ treq' = [treq EXCEPT ![h] = NoReq]
  /\ turl' = [turl EXCEPT ![h] = NoUrls]
  /\ UNCHANGED <<variant, authToken, apiUrl, downloadUrl, b2Authorized, tokCalls,
                 validTokens, gcsVars, ttlVars, reqVars>>

\* The backend stops accepting a token (B2 authorization tokens expire).
TokenExpires ==
  \E t \in validTokens :
    /\ validTokens' = validTokens \ {t}
    /\ UNCHANGED <<variant, authToken, apiUrl, downloadUrl, b2Authorized, tokCalls,
                   tpc, used, treq, turl, gcsVars, ttlVars, reqVars>>

InitTok ==
  /\ bucket = <<>> /\ resp = NoResp /\ del = NoDel
  /\ TTLIdle
  /\ TokIdle /\ variant \in {"axios", "flag"}
  /\ ReqIdle /\ svc = ""

NextTok ==
  \/ \E h \in Handlers : HandlerStarts(h)
  \/ \E h \in Handlers : AuthorizationResolves(h)
  \/ \E h \in Handlers : AuthorizationRejects(h)
  \/ \E h \in Handlers : BackendAnswers(h)
  \/ \E h \in Handlers : HandlerEnds(h)
  \/ TokenExpires

SpecTok == InitTok /\ [][NextTok]_vars

\* C3: an authenticated issuer whose cached token the backend rejects (a
\* listing or download-authorization call made with it fails) goes back to
\* unauthenticated, so that the next request authorizes again.
C3_RejectedTokenUnauthenticates ==
  [][\A h \in Handlers :
       (/\ tpc[h] = "calling" /\ tpc'[h] = "answered500"
        /\ used[h] = authToken /\ used[h] \notin validTokens)
         => ~authenticated']_vars

\* C14: where the search query is required (part_004), a request to
\* /api/search without a query is answered 400 and causes no backend
\* interaction: no authorization call is made, no listing call is sent, and the
\* cached authorization is left as it was.
C14_MissingQueryAnswered400 ==
  [][\A h \in Handlers :
       /\ (/\ variant = "axios" /\ tpc[h] = "idle" /\ tpc'[h] # "idle"
           /\ treq'[h].route = "/api/search" /\ treq'[h].query = <<>>)
            => /\ tpc'[h] = "answered400"
               /\ tokCalls' = tokCalls /\ used' = used
               /\ <<authToken, apiUrl, downloadUrl>>' = <<authToken, apiUrl, downloadUrl>>
       /\ (tpc[h] = "answered400" /\ tpc'[h] # "answered400")
            => /\ tpc'[h] = "idle"
               /\ tokCalls' = tokCalls /\ used'[h] = 0
               /\ <<authToken, apiUrl, downloadUrl>>' = <<authToken, apiUrl, downloadUrl>>]_vars

\* C14's case: a search without a query was answered 400 while the service
\* held a cached authorization.
C14_Witness ==
  \E h \in Handlers :
    /\ variant = "axios" /\ tpc[h] = "answered400"
    /\ treq[h] = [route |-> "/api/search", query |-> <<>>]
    /\ authToken # 0 /\ tokCalls = 1

\* C24: in part_004 the three cached values are replaced together and used
\* together: in every state authToken, apiUrl and downloadUrl are all empty or
\* all of the same authorization response, and a handler that has sent its
\* backend call or built its stream url has taken the token, the apiUrl and
\* the downloadUrl from one and the same authorization response.
C24_CachedValuesOfOneResponse ==
  variant = "axios" =>
    /\ authToken = apiUrl /\ apiUrl = downloadUrl
    /\ \A h \in Handlers :
         /\ tpc[h] \in {"calling", "answered200"} => turl[h].api = used[h]
         /\ (tpc[h] = "answered200" /\ treq[h].route = "/api/stream/:fileId")
              => turl[h].base = used[h]

(***************************************************************************)
(* The stream endpoints of the B2 services: part_000, part_002, part_003   *)
(* (second service), part_004, part_006 and part_007                       *)
(***************************************************************************)

StreamServices == {"part_000", "part_002", "part_003", "part_004", "part_006", "part_007"}

\* The :fileName / :fileId route parameter, as Express hands it over
\* (percent-decoded): object names with and without characters that have a
\* meaning in a url.
StreamKeys == {"a.mp3", "jazz/a b?c#d&e.mp3"}

\* process.env.B2_BUCKET_NAME
B2BucketName == "music"

\* The downloadUrl of the authorization response.
B2DownloadUrl == "https://f005.backblazeb2.com"

\* The download authorization tokens the backend hands out.
DownloadTokens == [h \in Handlers |-> IF h = "h1" THEN "tokA" ELSE "tokB"]

\* The characters encodeURIComponent leaves alone besides letters and digits.
UnreservedMarks == "-_.!~*'()"

Digits == "0123456789"

\* The escape sequence of the other characters that occur in keys.
percentOf ==
  [c \in {" ", "#", "%", "&", "/", ":", "=", "?"} |->
     CASE c = " " -> "%20" [] c = "#" -> "%23" [] c = "%" -> "%25" [] c = "&" -> "%26"
       [] c = "/" -> "%2F" [] c = ":" -> "%3A" [] c = "=" -> "%3D" [] c = "?" -> "%3F"]

\* encodeURIComponent
RECURSIVE encodeURIComponent(_)
encodeURIComponent(str) ==
  IF str = "" THEN ""
  ELSE (IF charAt(str, 1) \in DOMAIN percentOf THEN percentOf[charAt(str, 1)]
        ELSE charAt(str, 1)) \o encodeURIComponent(sliceFrom(str, 2))

\* validDurationInSeconds of the download authorization the handler asks the
\* backend for; 0 where the handler names none (part_003 calls
\* b2.getDownloadUrl({ bucketId, fileName })).
validDurationInSeconds(service) ==
  CASE service = "part_004" -> 86400
    [] service = "part_003" -> 0
    [] OTHER -> 3600

\* The validity the backend grants: the one asked for, its own choice where
\* none was named.
grantedDurations(service) ==
  IF validDurationInSeconds(service) = 0 THEN {3600, 86400}
  ELSE {validDurationInSeconds(service)}

\* The services that report expiresAt, and what they add to Date.now(), in
\* milliseconds (part_000, part_002, part_007: 3600000; part_003, part_004:
\* 86400 * 1000). part_003 and part_004 report the instant as an ISO string.
reportsExpiry(service) == service # "part_006"

expiryOffset(service) ==
  IF service \in {"part_003", "part_004"} THEN 86400 * 1000 ELSE 3600000

\* The services that build the url from the requested name.
buildsUrl(service) == service \in {"part_002", "part_004", "part_006", "part_007"}

\* The url of the response.
streamUrl(service, fileId, token) ==
  CASE service = "part_002" ->
         "https://f005.backblazeb2.com/file/" \o B2BucketName \o "/"
           \o encodeURIComponent(fileId)
    [] service = "part_004" ->
         B2DownloadUrl \o "/file/" \o B2BucketName \o "/" \o fileId
           \o "?Authorization=" \o token
    [] service = "part_006" ->
         "https://f002.backblazeb2.com/file/" \o B2BucketName \o "/" \o fileId
           \o "?Authorization=" \o token
    [] service = "part_007" ->
         "https://f005.backblazeb2.com/file/" \o B2BucketName \o "/" \o fileId

\* res.json({ url, expiresAt, ... }): the fields of the body that are
\* modelled (the url of part_000 and of part_003 is not).
streamBody(service, fileId, token, t) ==
  IF ~buildsUrl(service) THEN [expiresAt |-> t + expiryOffset(service)]
  ELSE IF ~reportsExpiry(service) THEN [url |-> streamUrl(service, fileId, token)]
  ELSE [url |-> streamUrl(service, fileId, token), expiresAt |-> t + expiryOffset(service)]

\* The catch block of every stream handler: res.status(500).json(...)
streamFailure == [status |-> 500]

\* A request arrives at GET /api/stream/:fileId; the handler obtains the
\* authorization of the service (await b2.authorize(), await authorizeB2()).
StreamStarts(h) ==
  \E key \in StreamKeys :
    /\ hpc[h] = "idle"
    /\ hreq' = [hreq EXCEPT ![h] = [route |-> "/api/stream", query |-> <<key>>]]
    /\ hpc' = [hpc EXCEPT ![h] = "authorizing"]
    /\ UNCHANGED <<svc, hloc, hres, gcsVars, ttlVars, tokVars, sloc, retry>>

\* The authorization settles: the handler sends its download-authorization
\* call, or the catch block answers 500.
StreamAuthorized(h) ==
  \E ok \in BOOLEAN :
    /\ hpc[h] = "authorizing"
    /\ IF ok
       THEN /\ hloc' = [hloc EXCEPT ![h].askedAt = now,
                                    ![h].ttl = validDurationInSeconds(svc)]
            /\ hpc' = [hpc EXCEPT ![h] = "asking"]
            /\ UNCHANGED hres
       ELSE /\ hloc' = [hloc EXCEPT ![h].failure = "authorization"]
            /\ hres' = [hres EXCEPT ![h] = streamFailure]
            /\ hpc' = [hpc EXCEPT ![h] = "done"]
    /\ UNCHANGED <<svc, hreq, gcsVars, ttlVars, tokVars, sloc, retry>>

\* The backend answers the download-authorization call: it issues a token
\* that is valid for the granted duration from now on, or it refuses (the
\* key's scope is denied, or another failure).
BackendIssues(h) ==
  \E outcome \in {"ok", "denied", "error"}, granted \in grantedDurations(svc) :
    /\ hpc[h] = "asking"
    /\ IF outcome = "ok"
       THEN /\ hloc' = [hloc EXCEPT ![h].validUntil = now + granted * 1000,
                                    ![h].token = DownloadTokens[h]]
            /\ hpc' = [hpc EXCEPT ![h] = "issued"]
       ELSE /\ hloc' = [hloc EXCEPT ![h].failure = outcome]
            /\ hpc' = [hpc EXCEPT ![h] = "refused"]
    /\ UNCHANGED <<svc, hreq, hres, gcsVars, ttlVars, tokVars, sloc, retry>>

\* The handler goes on after its download-authorization call: part_007 asks
\* for the file's info, the others send their response; a refusal is caught.
StreamContinues(h) ==
  /\ hpc[h] \in {"issued", "refused"}
  /\ IF hpc[h] = "refused"
     THEN hres' = [hres EXCEPT ![h] = streamFailure] /\ hpc' = [hpc EXCEPT ![h] = "done"]
     ELSE IF svc = "part_007"
     THEN hpc' = [hpc EXCEPT ![h] = "fileinfo"] /\ UNCHANGED hres
     ELSE /\ hres' = [hres EXCEPT ![h] =
                        [status |-> 200,
                         body |-> streamBody(svc, hreq[h].query[1], hloc[h].token, now)]]
          /\ hpc' = [hpc EXCEPT ![h] = "done"]
  /\ UNCHANGED <<svc, hreq, hloc, gcsVars, ttlVars, tokVars, sloc, retry>>

\* part_007: b2.getFileInfo settles: the file's name goes into the url, or
\* the file does not exist (or another failure) and the catch block answers.
FileInfoAnswers(h) ==
  \E outcome \in {"ok", "not_found", "error"} :
    /\ hpc[h] = "fileinfo"
    /\ IF outcome = "ok"
       THEN /\ hres' = [hres EXCEPT ![h] =
                          [status |-> 200,
                           body |-> streamBody(svc, hreq[h].query[1], hloc[h].token, now)]]
            /\ UNCHANGED hloc
       ELSE /\ hres' = [hres EXCEPT ![h] = streamFailure]
            /\ hloc' = [hloc EXCEPT ![h].failure = outcome]
    /\ hpc' = [hpc EXCEPT ![h] = "done"]
    /\ UNCHANGED <<svc, hreq, gcsVars, ttlVars, tokVars, sloc, retry>>

\* The response has been sent; the handler is free for the next request.
StreamEnds(h) ==
  /\ hpc[h] = "done"
  /\ hpc' = [hpc EXCEPT ![h] = "idle"]
  /\ hreq' = [hreq EXCEPT ![h] = NoReq]
  /\ hloc' = [hloc EXCEPT ![h] = NoLoc]
  /\ hres' = [hres EXCEPT ![h] = NoRes]
  /\ UNCHANGED <<svc, gcsVars, ttlVars, tokVars, sloc, retry>>

InitStream ==
  /\ bucket = <<>> /\ resp = NoResp /\ del = NoDel
  /\ TTLIdle
  /\ TokIdle /\ variant = "axios"
  /\ ReqIdle /\ svc \in StreamServices

NextStream ==
  \/ \E h \in Handlers : StreamStarts(h)
  \/ \E h \in Handlers : StreamAuthorized(h)
  \/ \E h \in Handlers : BackendIssues(h)
  \/ \E h \in Handlers : StreamContinues(h)
  \/ \E h \in Handlers : FileInfoAnswers(h)
  \/ \E h \in Handlers : StreamEnds(h)
  \/ Tick

SpecStream == InitStream /\ [][NextStream]_vars

\* C15: the expiresAt a stream endpoint returns is the time of the handler's
\* download-authorization request plus the validity it asked the backend for,
\* and never later than the moment the issued token stops being valid.
C15_ExpiresAtIsRequestTimePlusTtl ==
  \A h \in Handlers :
    (hpc[h] = "done" /\ hres[h].status = 200 /\ reportsExpiry(svc)) =>
      /\ hres[h].body.expiresAt = hloc[h].askedAt + hloc[h].ttl * 1000
      /\ hres[h].body.expiresAt <= hloc[h].validUntil

\* C16: the url a stream endpoint returns contains the requested key in
\* URL-encoded form, and never the key as given where encoding changes it.
C16_UrlHoldsEncodedKey ==
  \A h \in Handlers :
    (hpc[h] = "done" /\ hres[h].status = 200 /\ svc \in {"part_002", "part_004", "part_006"}) =>
      LET key == hreq[h].query[1] IN
      /\ includes(hres[h].body.url, encodeURIComponent(key))
      /\ encodeURIComponent(key) # key => ~includes(hres[h].body.url, key)

\* C17: a stream request that fails because the key does not exist is
\* answered 404, one whose authorization scope the backend denies 403, and
\* only other failures 500.
C17_FailureKindsDistinguished ==
  \A h \in Handlers :
    (hpc[h] = "done" /\ hloc[h].failure # "") =>
      hres[h].status = CASE hloc[h].failure = "not_found" -> 404
                         [] hloc[h].failure = "denied" -> 403
                         [] OTHER -> 500

(***************************************************************************)
(* Upload with existence check and delete: src/unnamed/part_009 (second    *)
(* GCS service, lines 122-320) and DELETE /songs/:name of part_005         *)
(***************************************************************************)

ObjServices == {"part_009", "part_005"}

\* The objects the bucket may hold when the service starts, the :id / :name
\* route parameter of DELETE, and req.file.originalname of an upload.
ObjInitialKeys == {"a.mp3", "b.mp3"}

ObjDeleteNames == {"a.mp3", "b.mp3"}

ObjUploadNames == {"a.mp3", "a?.mp3"}

\* originalname.replace(/[^a-zA-Z0-9._-]/g, '')
RECURSIVE sanitized(_)
sanitized(str) ==
  IF str = "" THEN ""
  ELSE (IF \/ includes(UpperLetters, charAt(str, 1)) \/ includes(LowerLetters, charAt(str, 1))
           \/ includes(Digits, charAt(str, 1)) \/ charAt(str, 1) \in {".", "_", "-"}
        THEN charAt(str, 1) ELSE "") \o sanitized(sliceFrom(str, 2))

\* The handler's locals: the operation, fileName, and the failure caught.
objLoc(op, fileName) == [op |-> op, fileName |-> fileName, failure |-> ""]

\* part_009 awaits file.exists() before it saves or deletes; part_005 deletes
\* straight away.
checksExistence(service) == service = "part_009"

\* POST /upload arrives (part_009): 400 without a file; otherwise the handler
\* awaits file.exists() for the sanitized name.
UploadStarts(h) ==
  /\ svc = "part_009" /\ hpc[h] = "idle"
  /\ \/ /\ hreq' = [hreq EXCEPT ![h] = [route |-> "POST /upload", query |-> <<>>]]
        /\ hloc' = [hloc EXCEPT ![h] = objLoc("upload", "")]
        /\ hres' = [hres EXCEPT ![h] = [status |-> 400]]
        /\ hpc' = [hpc EXCEPT ![h] = "done"]
     \/ \E originalname \in ObjUploadNames :
          /\ hreq' = [hreq EXCEPT ![h] = [route |-> "POST /upload", query |-> <<originalname>>]]
          /\ hloc' = [hloc EXCEPT ![h] = objLoc("upload", sanitized(originalname))]
          /\ hpc' = [hpc EXCEPT ![h] = "checking"]
          /\ UNCHANGED hres
  /\ UNCHANGED <<svc, gcsVars, ttlVars, tokVars, sloc, retry>>

\* DELETE /songs/:id arrives: part_009 awaits file.exists(), part_005 awaits
\* file.delete().
DeleteStarts(h) ==
  \E id \in ObjDeleteNames :
    /\ hpc[h] = "idle"
    /\ hreq' = [hreq EXCEPT ![h] = [route |-> "DELETE /songs/:id", query |-> <<id>>]]
    /\ hloc' = [hloc EXCEPT ![h] = objLoc("delete", id)]
    /\ hpc' = [hpc EXCEPT ![h] = IF checksExistence(svc) THEN "checking" ELSE "deleting"]
    /\ UNCHANGED <<svc, hres, gcsVars, ttlVars, tokVars, sloc, retry>>

\* file.exists() settles. Upload: 409 if the object exists, otherwise the
\* handler awaits file.save(). Delete: 404 if it does not exist, otherwise the
\* handler awaits file.delete(). A failure is caught by handleError: 500.
ExistsSettles(h) ==
  \E ok \in BOOLEAN :
    LET exists == hloc[h].fileName \in DOMAIN bucket IN
    /\ hpc[h] = "checking"
    /\ IF ~ok
       THEN /\ hloc' = [hloc EXCEPT ![h].failure = "backend"]
            /\ hres' = [hres EXCEPT ![h] = [status |-> 500]]
            /\ hpc' = [hpc EXCEPT ![h] = "done"]
       ELSE IF hloc[h].op = "upload" /\ exists
       THEN /\ hres' = [hres EXCEPT ![h] = [status |-> 409]]
            /\ hpc' = [hpc EXCEPT ![h] = "done"]
            /\ UNCHANGED hloc
       ELSE IF hloc[h].op = "delete" /\ ~exists
       THEN /\ hres' = [hres EXCEPT ![h] = [status |-> 404]]
            /\ hpc' = [hpc EXCEPT ![h] = "done"]
            /\ UNCHANGED hloc
       ELSE /\ hpc' = [hpc EXCEPT ![h] = IF hloc[h].op = "upload" THEN "saving" ELSE "deleting"]
            /\ UNCHANGED <<hloc, hres>>
    /\ UNCHANGED <<svc, hreq, gcsVars, ttlVars, tokVars, sloc, retry>>

\* file.save() settles: the object holds the uploaded content (whatever it
\* held before) and the handler answers 201; a failure is answered 500.
SaveSettles(h) ==
  \E ok \in BOOLEAN :
    /\ hpc[h] = "saving"
    /\ IF ok
       THEN /\ bucket' = [k \in DOMAIN bucket \cup {hloc[h].fileName} |->
                            IF k = hloc[h].fileName THEN [size |-> 1, content |-> h]
                            ELSE bucket[k]]
            /\ hres' = [hres EXCEPT ![h] = [status |-> 201]]
            /\ UNCHANGED hloc
       ELSE /\ hloc' = [hloc EXCEPT ![h].failure = "backend"]
            /\ hres' = [hres EXCEPT ![h] = [status |-> 500]]
            /\ UNCHANGED bucket
    /\ hpc' = [hpc EXCEPT ![h] = "done"]
    /\ UNCHANGED <<svc, hreq, resp, del, ttlVars, tokVars, sloc, retry>>

\* file.delete() settles: the object is removed and the handler answers 200;
\* the storage client rejects when the object does not exist (or for another
\* failure), and the catch block answers 500.
DeleteSettles(h) ==
  \E ok \in BOOLEAN :
    /\ hpc[h] = "deleting"
    /\ IF ok /\ hloc[h].fileName \in DOMAIN bucket
       THEN /\ bucket' = [k \in DOMAIN bucket \ {hloc[h].fileName} |-> bucket[k]]
            /\ hres' = [hres EXCEPT ![h] = [status |-> 200]]
            /\ UNCHANGED hloc
       ELSE /\ hloc' = [hloc EXCEPT ![h].failure = IF ok THEN "not_found" ELSE "backend"]
            /\ hres' = [hres EXCEPT ![h] = [status |-> 500]]
            /\ UNCHANGED bucket
    /\ hpc' = [hpc EXCEPT ![h] = "done"]
    /\ UNCHANGED <<svc, hreq, resp, del, ttlVars, tokVars, sloc, retry>>

\* The response has been sent; the handler is free for the next request.
ObjEnds(h) ==
  /\ hpc[h] = "done"
  /\ hpc' = [hpc EXCEPT ![h] = "idle"]
  /\ hreq' = [hreq EXCEPT ![h] = NoReq]
  /\ hloc' = [hloc EXCEPT ![h] = NoLoc]
  /\ hres' = [hres EXCEPT ![h] = NoRes]
  /\ UNCHANGED <<svc, gcsVars, ttlVars, tokVars, sloc, retry>>

InitObj ==
  /\ \E S \in SUBSET ObjInitialKeys : bucket = [k \in S |-> [size |-> 1, content |-> "old"]]
  /\ resp = NoResp /\ del = NoDel
  /\ TTLIdle
  /\ TokIdle /\ variant = "axios"
  /\ ReqIdle /\ svc \in ObjServices

NextObj ==
  \/ \E h \in Handlers : UploadStarts(h)
  \/ \E h \in Handlers : DeleteStarts(h)
  \/ \E h \in Handlers : ExistsSettles(h)
  \/ \E h \in Handlers : SaveSettles(h)
  \/ \E h \in Handlers : DeleteSettles(h)
  \/ \E h \in Handlers : ObjEnds(h)

SpecObj == InitObj /\ [][NextObj]_vars

\* C19: POST /upload with existence check never overwrites an existing
\* object: whenever a request stores its content and answers 201, no object
\* of that name existed, also when requests for the same sanitized name run
\* concurrently.
C19_UploadNeverOverwrites ==
  [][\A h \in Handlers :
       (hpc[h] = "saving" /\ hpc'[h] = "done" /\ hres'[h].status = 201)
         => hloc[h].fileName \notin DOMAIN bucket]_vars

\* C20: a DELETE /songs/:id that the backend serves is answered 404, with the
\* bucket unchanged, if the key does not exist, and 200, with exactly that key
\* removed, if it exists; never 500, also when two requests delete the same
\* key concurrently.
C20_DeleteAnswers200Or404 ==
  [][\A h \in Handlers :
       (/\ hpc[h] \in {"checking", "deleting"} /\ hpc'[h] = "done"
        /\ hloc[h].op = "delete" /\ hloc'[h].failure # "backend")
         => IF hloc[h].fileName \in DOMAIN bucket
            THEN /\ hres'[h].status = 200
                 /\ bucket' = [k \in DOMAIN bucket \ {hloc[h].fileName} |-> bucket[k]]
            ELSE hres'[h].status = 404 /\ bucket' = bucket]_vars
(***************************************************************************)
(* src/server.js, second service: bucketOperationWithRetry                 *)
(***************************************************************************)

\* The largest maxRetries argument a caller passes.
MaxRetriesArg == 2

\* maxRetries = 3
DefaultMaxRetries == 3

\* The arguments after operation: <<>> when maxRetries is left out (as every
\* caller in the service does), <<n>> otherwise.
RetryArgs == {<<>>} \cup {<<n>> : n \in 0..MaxRetriesArg}

maxRetriesOf(arg) == IF arg = <<>> THEN DefaultMaxRetries ELSE arg[1]

\* A loop that makes one attempt more than maxRetries.
loopGoesOnInclusive(i, maxRetries) == i <= maxRetries

\* i < maxRetries
loopGoesOn(i, maxRetries) == i < maxRetries

\* 1000 * (i + 1)
backoff(i) == 1000 * (i + 1)

\* The loop test and what follows it: operation() is invoked and awaited, or
\* the loop is over and lastError is thrown (undefined, 0, when there was no
\* attempt). Invocations and their errors are numbered from 1.
attempt(r) ==
  IF loopGoesOn(r.i, r.maxRetries)
  THEN [r EXCEPT !.pc = "awaiting", !.invocations = @ + 1]
  ELSE [r EXCEPT !.pc = "thrown", !.outcome = r.lastError]

\* A request handler calls bucketOperationWithRetry(operation[, maxRetries]).
CallWithRetry(h) ==
  \E arg \in RetryArgs :
    /\ retry[h].pc = "idle"
    /\ retry' = [retry EXCEPT ![h] = attempt([NoRetry EXCEPT !.maxRetries = maxRetriesOf(arg)])]
    /\ UNCHANGED <<svc, hpc, hreq, hloc, hres, sloc, gcsVars, ttlVars, tokVars>>

\* The invocation of operation settles: its result is returned, or its error
\* is kept in lastError and the timer of the backoff is started.
OperationSettles(h) ==
  \E ok \in BOOLEAN :
    LET r == retry[h] IN
    /\ r.pc = "awaiting"
    /\ retry' = [retry EXCEPT ![h] =
                   IF ok
                   THEN [r EXCEPT !.pc = "returned", !.outcome = r.invocations]
                   ELSE [r EXCEPT !.pc = "sleeping", !.lastError = r.invocations,
                                  !.delay = backoff(r.i)]]
    /\ UNCHANGED <<svc, hpc, hreq, hloc, hres, sloc, gcsVars, ttlVars, tokVars>>

\* The timer fires: i++ and the loop test.
TimerFires(h) ==
  /\ retry[h].pc = "sleeping"
  /\ retry' = [retry EXCEPT ![h] = attempt([retry[h] EXCEPT !.i = @ + 1, !.delay = 0])]
  /\ UNCHANGED <<svc, hpc, hreq, hloc, hres, sloc, gcsVars, ttlVars, tokVars>>

\* The caller goes on with the result or in its catch block.
RetryCallerGoesOn(h) ==
  /\ retry[h].pc \in {"returned", "thrown"}
  /\ retry' = [retry EXCEPT ![h] = NoRetry]
  /\ UNCHANGED <<svc, hpc, hreq, hloc, hres, sloc, gcsVars, ttlVars, tokVars>>

InitRetry ==
  /\ bucket = <<>> /\ resp = NoResp /\ del = NoDel
  /\ TTLIdle
  /\ TokIdle /\ variant = "axios"
  /\ ReqIdle /\ svc = ""

NextRetry ==
  \/ \E h \in Handlers : CallWithRetry(h)
  \/ \E h \in Handlers : OperationSettles(h)
  \/ \E h \in Handlers : TimerFires(h)
  \/ \E h \in Handlers : RetryCallerGoesOn(h)

SpecRetry == InitRetry /\ [][NextRetry]_vars

\* Every invocation of operation settles and every timer fires.
SpecRetryFair ==
  /\ SpecRetry
  /\ \A h \in Handlers : WF_vars(OperationSettles(h)) /\ WF_vars(TimerFires(h))

\* C25: bucketOperationWithRetry is a bounded retry: operation is invoked at
\* most maxRetries times; a call that returns returns the result of its last
\* invocation, every invocation before it having failed, and invokes
\* operation no more; a call that throws has made maxRetries invocations, all
\* failed, and throws the error of the last one; and every call returns or throws
\* once each of its invocations settles and each of its timers fires.
C25_BoundedRetryTerminates ==
  /\ [](\A h \in Handlers :
          LET r == retry[h] IN
          /\ r.invocations <= r.maxRetries
          /\ r.pc = "returned" =>
               (r.outcome = r.invocations /\ r.lastError = r.invocations - 1)
          /\ r.pc = "thrown" =>
               (r.invocations = r.maxRetries /\ r.lastError = r.invocations
                  /\ r.outcome = r.lastError))
  /\ [][\A h \in Handlers :
          retry[h].pc \in {"returned", "thrown"} =>
            retry'[h].invocations <= retry[h].invocations]_vars
  /\ \A h \in Handlers :
       (retry[h].pc \in {"awaiting", "sleeping"})
         ~> (retry[h].pc \in {"returned", "thrown"})

\* C25's case: a call with the default maxRetries has thrown after three
\* failed invocations, and another has returned the result of its second.
C25_Witness ==
  /\ retry["h1"].pc = "thrown" /\ retry["h1"].maxRetries = DefaultMaxRetries
  /\ retry["h1"].invocations = 3 /\ retry["h1"].outcome = 3
  /\ retry["h2"].pc = "returned" /\ retry["h2"].invocations = 2
  /\ retry["h2"].outcome = 2

=============================================================================
